---- MODULE Spec2Model ----
(***************************************************************************)
(* Credit-risk scoring service: feature reconciliation                     *)
(* (FeatureStore.select_features), risk scoring and the request pipeline   *)
(* of the four entry points (/predict, /predict_batch, prever_risco,       *)
(* prever_risco_lote).                                                     *)
(*                                                                         *)
(* Strings that the code inspects character by character (column names,    *)
(* canonical feature names) are sequences of one-character strings.        *)
(* Probabilities and thresholds are fixed-point numbers, see Scale.        *)
(***************************************************************************)
EXTENDS Integers, Sequences, FiniteSets, TLC

VARIABLES
    selected_features,  \* FeatureStore.selected_features: the canonical list
    all_columns,        \* list(X_full.columns): the transformed frame's columns
    selection,          \* outcome of the last select_features call
    matched,            \* per canonical name, what its loop iteration appended
    calls,              \* number of select_features calls made on the store
    path,               \* entry point of the scoring request
    prob_default,       \* proba[:, 1]: P(default) of each row, from the model
    threshold,          \* the request's decision threshold
    response,           \* what the entry point returned
    pc,                 \* position of the scoring request
    payload,            \* the request's records, as the caller sent them
    df,                 \* the raw frame built from the payload
    frame_index,        \* row index of the transformed and selected frames
    model_output,       \* what the model's own predict_proba returned
    proba,              \* what ModelProducao.predict_proba returned
    transform_calls,    \* calls of preprocessor.transform in this request
    predict_calls,      \* calls of the model's predict_proba in this request
    mlruns,             \* the model registry directory, as it is on disk
    version,            \* the version argument of load_production_model
    loaded,             \* what load_production_model returned or raised
    scalers,            \* the feature store's artifact files, as on disk
    store,              \* a FeatureStore object
    store_result,       \* outcome of the last call made on the store
    requests            \* the locals of the API calls running side by side

selectVars == <<selected_features, all_columns, selection, matched, calls>>

scoreVars == <<path, prob_default, threshold, response, pc>>

pipeVars == <<payload, df, frame_index, model_output, proba,
              transform_calls, predict_calls>>

processVars == <<mlruns, version, loaded, scalers, store, store_result,
                 requests>>

vars == <<selected_features, all_columns, selection, matched, calls,
          path, prob_default, threshold, response, pc,
          payload, df, frame_index, model_output, proba,
          transform_calls, predict_calls,
          mlruns, version, loaded, scalers, store, store_result, requests>>

----------------------------------------------------------------------------
(* Bounds of the feature-matcher model *)

\* longest canonical feature list
MaxCanon == 2
\* widest transformed frame
MaxCols == 2
\* select_features calls made on one store and frame
MaxCalls == 2

\* the characters of names: two word characters and the delimiter character
Alphabet == {"a", "b", "_"}

SeqsUpTo(S, n) == UNION {[1..k -> S] : k \in 0..n}

\* the delimiter of prefixed column names ("num__person_income")
Delimiter == <<"_", "_">>

\* canonical feature names: the one-character names
CanonicalNames == {<<x>> : x \in Alphabet}

\* transformed column names: a canonical name as it is, behind or before one
\* more character, or behind the delimiter
ColumnNames ==
    CanonicalNames
        \cup {<<x>> \o f : x \in Alphabet, f \in CanonicalNames}
        \cup {Delimiter \o f : f \in CanonicalNames}

NoRepeat(s) == \A i, j \in 1..Len(s) : s[i] = s[j] => i = j

----------------------------------------------------------------------------
(* Python string and list primitives used by select_features *)

\* c.endswith(s)
EndsWith(c, s) ==
    /\ Len(s) <= Len(c)
    /\ SubSeq(c, Len(c) - Len(s) + 1, Len(c)) = s

\* s in c, for strings
Contains(c, s) ==
    \E i \in 0..(Len(c) - Len(s)) : SubSeq(c, i + 1, i + Len(s)) = s

\* x in l, for lists
InList(x, l) == \E i \in 1..Len(l) : l[i] = x

\* (variant: only the delimiter-joined form counts as a suffix match)
suffix_matches_delimited_only(f, cols) ==
    SelectSeq(cols, LAMBDA c : EndsWith(c, Delimiter \o f))

\* [c for c in all_columns if c.endswith(f"__{f}") or c.endswith(f)]
suffix_matches(f, cols) ==
    SelectSeq(cols, LAMBDA c : EndsWith(c, Delimiter \o f) \/ EndsWith(c, f))

\* (variant: there is no containment tier)
contains_matches_never(f, cols) == <<>>

\* [c for c in all_columns if f in c]
contains_matches(f, cols) ==
    SelectSeq(cols, LAMBDA c : Contains(c, f))

\* (variant: the "continue" after the exact match is missing)
matches_for_no_continue(f, cols) ==
    LET matches == suffix_matches(f, cols)
    IN  (IF InList(f, cols) THEN <<f>> ELSE <<>>)
        \o (IF matches = <<>> THEN contains_matches(f, cols) ELSE matches)

\* what one iteration of the loop appends to updated_selected_features
matches_for(f, cols) ==
    IF InList(f, cols)
    THEN <<f>>
    ELSE LET matches == suffix_matches(f, cols)
         IN  IF matches = <<>> THEN contains_matches(f, cols) ELSE matches

\* the for loop: updated_selected_features after all iterations
RECURSIVE collect(_, _)
collect(feats, cols) ==
    IF feats = <<>>
    THEN <<>>
    ELSE matches_for(Head(feats), cols) \o collect(Tail(feats), cols)

\* (variant: no deduplication)
dict_fromkeys_keep_all(l) == l

\* (variant: deduplication that keeps the last occurrence of each key)
RECURSIVE dict_fromkeys_keep_last(_)
dict_fromkeys_keep_last(l) ==
    IF l = <<>>
    THEN <<>>
    ELSE LET keys == dict_fromkeys_keep_last(Tail(l))
         IN  IF InList(Head(l), keys) THEN keys ELSE <<Head(l)>> \o keys

\* list(dict.fromkeys(l)): keys in first-insertion order
RECURSIVE dict_fromkeys(_)
dict_fromkeys(l) ==
    IF l = <<>>
    THEN <<>>
    ELSE LET keys == dict_fromkeys(SubSeq(l, 1, Len(l) - 1))
             k    == l[Len(l)]
         IN  IF InList(k, keys) THEN keys ELSE Append(keys, k)

\* X_full[labels]: for each label in turn, every column carrying it
RECURSIVE frame_getitem(_, _)
frame_getitem(cols, labels) ==
    IF labels = <<>>
    THEN <<>>
    ELSE SelectSeq(cols, LAMBDA c : c = Head(labels))
         \o frame_getitem(cols, Tail(labels))

NotCalled == [raised |-> "", columns |-> <<>>]

\* (variant: a single soft miss is fatal)
select_features_strict(feats, cols) ==
    LET updated_selected_features == collect(feats, cols)
    IN  IF \E i \in 1..Len(feats) : matches_for(feats[i], cols) = <<>>
        THEN [raised |-> "ValueError", columns |-> <<>>]
        ELSE IF updated_selected_features = <<>>
        THEN [raised |-> "ValueError", columns |-> <<>>]
        ELSE [raised |-> "",
              columns |-> frame_getitem(cols, dict_fromkeys(updated_selected_features))]

\* (variant: a canonical list that repeats a name is refused)
select_features_no_repeats(feats, cols) ==
    LET updated_selected_features == collect(feats, cols)
    IN  IF updated_selected_features = <<>> \/ ~NoRepeat(feats)
        THEN [raised |-> "ValueError", columns |-> <<>>]
        ELSE [raised |-> "",
              columns |-> frame_getitem(cols, dict_fromkeys(updated_selected_features))]

\* FeatureStore.select_features: the columns of the returned frame, or the
\* ValueError raised when nothing was collected
select_features(feats, cols) ==
    LET updated_selected_features == collect(feats, cols)
    IN  IF updated_selected_features = <<>>
        THEN [raised |-> "ValueError", columns |-> <<>>]
        ELSE [raised |-> "",
              columns |-> frame_getitem(cols, dict_fromkeys(updated_selected_features))]

----------------------------------------------------------------------------
(* The feature matcher as a state machine: a loaded store, one transformed *)
(* frame, and select_features called on it up to MaxCalls times.  The      *)
(* frame's column names are distinct, as the feature names a fitted        *)
(* preprocessor reports are.                                               *)

NoFrame == [columns |-> {}, index |-> <<>>]

NoOutput == [kind |-> "none", rows |-> <<>>, error |-> ""]

NoDirectory == [exists |-> FALSE]

NoCall == [call |-> "none", n |-> 0]

NoStore == [made |-> FALSE]

NoProcess ==
    /\ mlruns = NoDirectory
    /\ version = <<>>
    /\ loaded = NoCall
    /\ scalers = NoDirectory
    /\ store = NoStore
    /\ store_result = NoCall
    /\ requests = <<>>

NoPipeline ==
    /\ NoProcess
    /\ payload = <<>>
    /\ df = NoFrame
    /\ frame_index = <<>>
    /\ model_output = NoOutput
    /\ proba = NoOutput
    /\ transform_calls = 0
    /\ predict_calls = 0

NoRequest ==
    /\ NoPipeline
    /\ path = "none"
    /\ prob_default = <<>>
    /\ threshold = 0
    /\ response = [status |-> 0]
    /\ pc = "idle"

InitSelect ==
    /\ NoRequest
    /\ selected_features \in SeqsUpTo(CanonicalNames, MaxCanon)
    /\ all_columns \in {s \in SeqsUpTo(ColumnNames, MaxCols) : NoRepeat(s)}
    /\ selection = NotCalled
    /\ matched = <<>>
    /\ calls = 0

\* (variant: the matched names are stored back into the canonical list)
select_features_call_writes_back ==
    /\ calls < MaxCalls
    /\ calls' = calls + 1
    /\ selection' = select_features(selected_features, all_columns)
    /\ matched' = [i \in 1..Len(selected_features) |->
                      matches_for(selected_features[i], all_columns)]
    /\ selected_features' = collect(selected_features, all_columns)
    /\ UNCHANGED all_columns
    /\ UNCHANGED scoreVars
    /\ UNCHANGED pipeVars
    /\ UNCHANGED processVars

\* FeatureStore.select_features called on the store with the frame
select_features_call ==
    /\ calls < MaxCalls
    /\ calls' = calls + 1
    /\ selection' = select_features(selected_features, all_columns)
    /\ matched' = [i \in 1..Len(selected_features) |->
                      matches_for(selected_features[i], all_columns)]
    /\ UNCHANGED <<selected_features, all_columns>>
    /\ UNCHANGED scoreVars
    /\ UNCHANGED pipeVars
    /\ UNCHANGED processVars

NextSelect == select_features_call

SpecSelect == InitSelect /\ [][NextSelect]_vars

(* The same calls on a store and a frame whose names are those of the      *)
(* service's data: two raw fields, and columns the preprocessor derives    *)
(* from them.                                                              *)

person_income ==
    <<"p", "e", "r", "s", "o", "n", "_", "i", "n", "c", "o", "m", "e">>

loan_grade ==
    <<"l", "o", "a", "n", "_", "g", "r", "a", "d", "e">>

num__person_income ==
    <<"n", "u", "m", "_", "_", "p", "e", "r", "s", "o", "n", "_", "i", "n", "c", "o", "m", "e">>

cat__loan_grade_A ==
    <<"c", "a", "t", "_", "_", "l", "o", "a", "n", "_", "g", "r", "a", "d", "e", "_", "A">>

cat__loan_grade_B ==
    <<"c", "a", "t", "_", "_", "l", "o", "a", "n", "_", "g", "r", "a", "d", "e", "_", "B">>

ScenarioCanon == {person_income, loan_grade}

ScenarioColumns ==
    {person_income, num__person_income, cat__loan_grade_A, cat__loan_grade_B}

InitScenario ==
    /\ NoRequest
    /\ selected_features \in SeqsUpTo(ScenarioCanon, MaxCanon)
    /\ all_columns \in {s \in SeqsUpTo(ScenarioColumns, MaxCols) : NoRepeat(s)}
    /\ selection = NotCalled
    /\ matched = <<>>
    /\ calls = 0

SpecScenario == InitScenario /\ [][NextSelect]_vars

----------------------------------------------------------------------------
(* Risk scoring.  A probability or threshold x in [0,1] is the integer      *)
(* x * Scale; Scale is one decimal finer than the digits the responses are  *)
(* rounded to, so that rounding is visible.                                 *)

\* round(value, 4)
RoundDigits == 4

Scale == 10 ^ (RoundDigits + 1)

\* one unit of the last digit kept by round(value, 4)
RoundUnit == Scale \div (10 ^ RoundDigits)

\* 0.30 and 0.60 of "if prob_default <= 0.30 ... elif prob_default <= 0.60"
TierLowMax == 30000
TierMediumMax == 60000

\* Field(0.42, ge=0.0, le=1.0)
DefaultThreshold == 42000

(* Bounds of the scoring model *)

\* probabilities and thresholds lie within MaxOffset/Scale of a band edge,
\* of the default threshold, of one half or of an end of [0,1]
MaxOffset == 1
\* rows of a batch
MaxRows == 2

Near(anchors) ==
    {a + d : a \in anchors, d \in (-MaxOffset)..MaxOffset} \cap (0..Scale)

Probabilities ==
    Near({0, TierLowMax, DefaultThreshold, Scale \div 2, TierMediumMax, Scale})
        \cup {RoundUnit \div 2}

Thresholds == Near({0, DefaultThreshold, Scale})

Abs(x) == IF x < 0 THEN -x ELSE x

Min(x, y) == IF x < y THEN x ELSE y

\* round(x, 4) for x >= 0.  Python rounds the binary float, so a value that is
\* a decimal tie (last digit 5) goes to either neighbour.
Round4(x) ==
    LET down == (x \div RoundUnit) * RoundUnit
        rest == x % RoundUnit
    IN  IF 2 * rest < RoundUnit THEN {down}
        ELSE IF 2 * rest > RoundUnit THEN {down + RoundUnit}
        ELSE {down, down + RoundUnit}

\* (variant: the boundary belongs to "Baixo Risco")
classificacao_strict(p, t) == IF p > t THEN "Alto Risco" ELSE "Baixo Risco"

\* "Alto Risco" if prob_default >= threshold else "Baixo Risco"
classificacao(p, t) == IF p >= t THEN "Alto Risco" ELSE "Baixo Risco"

\* (variant: the band edges belong to the band above)
nivel_risco_exclusive(p) ==
    IF p < TierLowMax THEN "Baixo"
    ELSE IF p < TierMediumMax THEN "Medio"
    ELSE "Alto"

\* the fixed probability bands of /predict ("Medio" stands for the code's
\* accented label)
nivel_risco(p) ==
    IF p <= TierLowMax THEN "Baixo"
    ELSE IF p <= TierMediumMax THEN "Medio"
    ELSE "Alto"

\* (variant: the normalised confidence is not capped at 1.0)
predict_responses_uncapped(p, t) ==
    LET confianca       == Abs(p - t)
        nivel_confianca == confianca * 2
    IN  {[status                   |-> 200,
          probabilidade_default    |-> rp,
          probabilidade_percentual |-> rpp,
          classificacao            |-> classificacao(p, t),
          nivel_risco              |-> nivel_risco(p),
          confianca                |-> rc,
          nivel_confianca          |-> rn,
          threshold_usado          |-> t] :
            rp \in Round4(p), rpp \in Round4(p),
            rc \in Round4(confianca), rn \in Round4(nivel_confianca)}

\* /predict, from "threshold = float(payload.threshold)" to the return
predict_responses(p, t) ==
    LET confianca       == Abs(p - t)
        nivel_confianca == Min(confianca * 2, Scale)
    IN  {[status                   |-> 200,
          probabilidade_default    |-> rp,
          probabilidade_percentual |-> rpp,
          classificacao            |-> classificacao(p, t),
          nivel_risco              |-> nivel_risco(p),
          confianca                |-> rc,
          nivel_confianca          |-> rn,
          threshold_usado          |-> t] :
            rp \in Round4(p), rpp \in Round4(p),
            rc \in Round4(confianca), rn \in Round4(nivel_confianca)}

\* (variant: the boundary belongs to "Baixo Risco" in a batch)
batch_rows_strict(p, t) ==
    {[probabilidade_default |-> rp,
      classificacao         |-> IF p > t THEN "Alto Risco" ELSE "Baixo Risco",
      confianca             |-> rc] :
        rp \in Round4(p), rc \in Round4(Abs(p - t))}

\* one entry of the results list of /predict_batch
batch_rows(p, t) ==
    {[probabilidade_default |-> rp,
      classificacao         |-> IF p >= t THEN "Alto Risco" ELSE "Baixo Risco",
      confianca             |-> rc] :
        rp \in Round4(p), rc \in Round4(Abs(p - t))}

\* the results lists the loop can build: the i-th entry is one of choices[i]
RECURSIVE RowWise(_)
RowWise(choices) ==
    IF choices = <<>>
    THEN {<<>>}
    ELSE {<<r>> \o rest : r \in Head(choices), rest \in RowWise(Tail(choices))}

\* (variant: the results list is built from the last row to the first)
predict_batch_responses_reversed(ps, t) ==
    {[status |-> 200, results |-> rs, threshold_usado |-> t] :
        rs \in RowWise([i \in 1..Len(ps) |->
                           batch_rows(ps[Len(ps) + 1 - i], t)])}

\* /predict_batch, from "threshold = float(payload.threshold)" to the return
predict_batch_responses(ps, t) ==
    {[status |-> 200, results |-> rs, threshold_usado |-> t] :
        rs \in RowWise([i \in 1..Len(ps) |-> batch_rows(ps[i], t)])}

\* prever_risco, from "prob_default = proba[0, 1]" to the return
prever_risco_results(p, t) ==
    {[status                |-> 200,
      probabilidade_default |-> rp,
      classificacao         |-> IF p >= t THEN "Alto Risco" ELSE "Baixo Risco",
      confianca             |-> rc,
      threshold_usado       |-> t] :
        rp \in Round4(p), rc \in Round4(Abs(p - t))}

\* the frame returned by prever_risco_lote, row by row
prever_risco_lote_results(ps, t) ==
    {[status |-> 200, results |-> rs] :
        rs \in RowWise([i \in 1..Len(ps) |-> batch_rows(ps[i], t)])}

----------------------------------------------------------------------------
(* The scoring step of the four entry points as a state machine: the model *)
(* has returned prob_default for the request's rows, the entry point       *)
(* scores them against the request's threshold and returns.                *)

NoSelection ==
    /\ selected_features = <<>>
    /\ all_columns = <<>>
    /\ selection = NotCalled
    /\ matched = <<>>
    /\ calls = 0

SingleRecordPaths == {"predict", "prever_risco"}

BatchPaths == {"predict_batch", "prever_risco_lote"}

InitScore ==
    /\ NoSelection
    /\ NoPipeline
    /\ path \in SingleRecordPaths \cup BatchPaths
    /\ prob_default \in
          IF path \in SingleRecordPaths
          THEN [1..1 -> Probabilities]
          ELSE SeqsUpTo(Probabilities, MaxRows) \ {<<>>}
    /\ threshold \in Thresholds
    /\ response = [status |-> 0]
    /\ pc = "scoring"

Return(responses) ==
    /\ pc = "scoring"
    /\ response' \in responses
    /\ pc' = "done"
    /\ UNCHANGED <<path, prob_default, threshold>>
    /\ UNCHANGED selectVars
    /\ UNCHANGED pipeVars
    /\ UNCHANGED processVars

predict_score ==
    /\ path = "predict"
    /\ Return(predict_responses(prob_default[1], threshold))

predict_batch_score ==
    /\ path = "predict_batch"
    /\ Return(predict_batch_responses(prob_default, threshold))

prever_risco_score ==
    /\ path = "prever_risco"
    /\ Return(prever_risco_results(prob_default[1], threshold))

prever_risco_lote_score ==
    /\ path = "prever_risco_lote"
    /\ Return(prever_risco_lote_results(prob_default, threshold))

NextScore ==
    \/ predict_score
    \/ predict_batch_score
    \/ prever_risco_score
    \/ prever_risco_lote_score

SpecScore == InitScore /\ [][NextScore]_vars

----------------------------------------------------------------------------
(* The request pipeline of the four entry points: the payload is made a    *)
(* raw frame, the feature store transforms it and selects the canonical    *)
(* columns, the production model gives the probabilities, and the entry    *)
(* point scores them.  The fitted preprocessor and the model are           *)
(* artifacts loaded from disk: what they return is chosen among the        *)
(* outcomes such an artifact can have.                                     *)

\* expected_cols of /predict
expected_cols ==
    {"person_income", "person_home_ownership", "person_emp_length",
     "loan_intent", "loan_grade", "loan_amnt", "loan_int_rate",
     "loan_percent_income", "cb_person_default_on_file",
     "cb_person_cred_hist_length", "faixa_etaria"}

(* Bounds of the pipeline model *)

\* deepest nesting of a feature mapping under 'features' keys
MaxDepth == 3
\* most columns of a probability matrix returned by the model
MaxClasses == 3

\* the raw fields one mapping holds: all the expected ones, all but one, none
FieldSets == {expected_cols, expected_cols \ {"loan_grade"}, {}}

\* P(default) the model gives a record's row; the last two lie outside [0,1]
ModelScores == {TierLowMax, DefaultThreshold, -RoundUnit, Scale + RoundUnit}

\* thresholds of a request; the last two lie outside [0,1]
RequestThresholds == {DefaultThreshold, Scale, -1, Scale + 1}

\* a record of the payload: levels[1] is the mapping the caller sent,
\* levels[k + 1] the mapping under the 'features' key of levels[k]
Records(depth) ==
    {[levels |-> l, score |-> s] :
        l \in SeqsUpTo(FieldSets, depth) \ {<<>>}, s \in ModelScores}

\* the keys of the k-th mapping of a record
Keys(levels, k) ==
    levels[k] \cup (IF k < Len(levels) THEN {"features"} ELSE {})

APIPaths == {"predict", "predict_batch"}

Payloads(p) ==
    IF p \in SingleRecordPaths
    THEN [1..1 -> Records(MaxDepth)]
    ELSE SeqsUpTo(Records(1), MaxRows) \ {<<>>}

\* the store's canonical list and the column lists the preprocessor reports
PipelineCanon == << <<"a">>, <<"b">> >>

PipelineFrames ==
    {<<Delimiter \o <<"a">>, Delimiter \o <<"b">>>>,
     <<Delimiter \o <<"a">>>>,
     <<Delimiter \o <<"_">>>>}

InitPipeline ==
    /\ selected_features = PipelineCanon
    /\ all_columns = <<>>
    /\ selection = NotCalled
    /\ matched = <<>>
    /\ calls = 0
    /\ path \in SingleRecordPaths \cup BatchPaths
    /\ payload \in Payloads(path)
    /\ threshold \in RequestThresholds
    /\ prob_default = <<>>
    /\ response = [status |-> 0]
    /\ pc = "received"
    /\ df = NoFrame
    /\ frame_index = <<>>
    /\ model_output = NoOutput
    /\ proba = NoOutput
    /\ transform_calls = 0
    /\ predict_calls = 0
    /\ NoProcess

(* Responses that are not assessments *)

\* JSONResponse / HTTPException of the API
HTTPError(status, error, message) ==
    [status |-> status, error |-> error, message |-> message]

\* prever_risco, prever_risco_lote: the exception leaves the function
Propagated(message) ==
    [status |-> -1, error |-> "exception", message |-> message]

\* the RequestValidationError handler
validation_error == HTTPError(422, "validation_error", "threshold")

\* "except Exception as exc: raise HTTPException(status_code=400, ...)"
invalid_input(message) == HTTPError(400, "invalid input", message)

\* the except block around FeatureStore.load, transform_all, select_features
feature_store_error(p, message) ==
    IF p \in APIPaths
    THEN HTTPError(500, "feature store error", message)
    ELSE Propagated(message)

\* the except block around ModelProducao() and predict_proba
model_inference_error(p, message) ==
    IF p \in APIPaths
    THEN HTTPError(500, "model inference error", message)
    ELSE Propagated(message)

\* a handler step that ends the request with a response
Respond(r) ==
    /\ response' = r
    /\ pc' = "done"

(* Request validation and normalization *)

\* Field(0.42, ge=0.0, le=1.0) of SingleInput and BatchInput
threshold_allowed(t) == 0 <= t /\ t <= Scale

\* the API validates the body before the handler runs
pydantic_validation ==
    /\ pc = "received"
    /\ path \in APIPaths
    /\ IF threshold_allowed(threshold)
       THEN pc' = "handler" /\ UNCHANGED response
       ELSE Respond(validation_error)
    /\ UNCHANGED <<path, prob_default, threshold>>
    /\ UNCHANGED selectVars
    /\ UNCHANGED pipeVars
    /\ UNCHANGED processVars

\* the handler or function body starts
Entered == pc = (IF path \in APIPaths THEN "handler" ELSE "received")

\* (variant: 'features' keys are followed down to the innermost mapping)
unwrap_all(levels) == <<levels[Len(levels)]>>

\* "if 'features' in features_dict and isinstance(..., dict)": the mapping
\* under 'features' replaces the one that holds it
unwrap(levels) == IF Len(levels) > 1 THEN Tail(levels) ELSE levels

\* pd.DataFrame(list of mappings): the columns are the keys, the rows are
\* indexed by the position of their record
DataFrame(mappings) ==
    [columns |-> UNION {Keys(mappings[i], 1) : i \in 1..Len(mappings)},
     index   |-> [i \in 1..Len(mappings) |-> i]]

missing_cols(frame) == expected_cols \ frame.columns

\* /predict, the try block that builds and checks the raw frame
predict_normalize ==
    /\ Entered
    /\ path = "predict"
    /\ LET frame == DataFrame(<<unwrap(payload[1].levels)>>)
       IN  IF missing_cols(frame) # {}
           THEN Respond(invalid_input("missing columns")) /\ UNCHANGED df
           ELSE df' = frame /\ pc' = "normalized" /\ UNCHANGED response
    /\ UNCHANGED <<path, prob_default, threshold>>
    /\ UNCHANGED selectVars
    /\ UNCHANGED <<payload, frame_index, model_output, proba,
                   transform_calls, predict_calls>>
    /\ UNCHANGED processVars

\* a frame is built from the payload and nothing is checked
Normalize(mappings) ==
    /\ Entered
    /\ df' = DataFrame(mappings)
    /\ pc' = "normalized"
    /\ UNCHANGED <<path, prob_default, threshold, response>>
    /\ UNCHANGED selectVars
    /\ UNCHANGED <<payload, frame_index, model_output, proba,
                   transform_calls, predict_calls>>
    /\ UNCHANGED processVars

\* /predict_batch: df = pd.DataFrame(payload.records)
predict_batch_normalize ==
    /\ path = "predict_batch"
    /\ Normalize([i \in 1..Len(payload) |-> payload[i].levels])

\* prever_risco: df = pd.DataFrame([dados_entrada])
prever_risco_normalize ==
    /\ path = "prever_risco"
    /\ Normalize(<<payload[1].levels>>)

\* prever_risco_lote: the caller's frame is used as it is
prever_risco_lote_normalize ==
    /\ path = "prever_risco_lote"
    /\ Normalize([i \in 1..Len(payload) |-> payload[i].levels])

(* Feature store *)

\* self.preprocessor.transform(df_raw) and get_feature_names_out(): the
\* preprocessor was fitted on the expected columns and raises without them;
\* with them it raises or returns the transformed rows
PreprocessorOutcomes(frame) ==
    {[raised |-> TRUE, columns |-> <<>>]}
        \cup (IF missing_cols(frame) = {}
              THEN {[raised |-> FALSE, columns |-> c] : c \in PipelineFrames}
              ELSE {})

\* (variant: a transform that raised is tried once more)
transform_all_retrying(frame) ==
    {[raised  |-> o.raised,
      columns |-> o.columns,
      index   |-> IF o.raised THEN <<>> ELSE frame.index,
      calls   |-> IF o.raised THEN 2 ELSE 1] : o \in PreprocessorOutcomes(frame)}

\* FeatureStore.transform_all: X_full keeps df_raw's index; an exception is
\* logged and raised again
transform_all(frame) ==
    {[raised  |-> o.raised,
      columns |-> o.columns,
      index   |-> IF o.raised THEN <<>> ELSE frame.index,
      calls   |-> 1] : o \in PreprocessorOutcomes(frame)}

\* FeatureStore.load(), transform_all(df), select_features(X_full): the runs
\* of the try block; failed names the call that raised
feature_store_runs(feats, frame) ==
    {[failed    |-> "load",
      calls     |-> 0,
      columns   |-> <<>>,
      index     |-> <<>>,
      selection |-> NotCalled]}
        \cup
    {LET sel == IF x.raised THEN NotCalled
                ELSE select_features(feats, x.columns)
     IN  [failed    |-> IF x.raised THEN "transform"
                        ELSE IF sel.raised # "" THEN "feature match"
                        ELSE "",
          calls     |-> x.calls,
          columns   |-> x.columns,
          index     |-> x.index,
          selection |-> sel] : x \in transform_all(frame)}

\* (variant: the failure is answered and the handler goes on)
feature_store_stage_goes_on ==
    /\ pc = "normalized"
    /\ \E run \in feature_store_runs(selected_features, df) :
          /\ transform_calls' = transform_calls + run.calls
          /\ all_columns' = run.columns
          /\ frame_index' = run.index
          /\ selection' = run.selection
          /\ matched' = IF run.failed \in {"load", "transform"}
                        THEN <<>>
                        ELSE [i \in 1..Len(selected_features) |->
                                 matches_for(selected_features[i], run.columns)]
          /\ calls' = IF run.failed \in {"load", "transform"}
                      THEN calls ELSE calls + 1
          /\ response' = IF run.failed # ""
                         THEN feature_store_error(path, run.failed)
                         ELSE response
          /\ pc' = "selected"
    /\ UNCHANGED <<path, prob_default, threshold>>
    /\ UNCHANGED selected_features
    /\ UNCHANGED <<payload, df, model_output, proba, predict_calls>>
    /\ UNCHANGED processVars

feature_store_stage ==
    /\ pc = "normalized"
    /\ \E run \in feature_store_runs(selected_features, df) :
          /\ transform_calls' = transform_calls + run.calls
          /\ all_columns' = run.columns
          /\ frame_index' = run.index
          /\ selection' = run.selection
          /\ matched' = IF run.failed \in {"load", "transform"}
                        THEN <<>>
                        ELSE [i \in 1..Len(selected_features) |->
                                 matches_for(selected_features[i], run.columns)]
          /\ calls' = IF run.failed \in {"load", "transform"}
                      THEN calls ELSE calls + 1
          /\ IF run.failed # ""
             THEN Respond(feature_store_error(path, run.failed))
             ELSE pc' = "selected" /\ UNCHANGED response
    /\ UNCHANGED <<path, prob_default, threshold>>
    /\ UNCHANGED selected_features
    /\ UNCHANGED <<payload, df, model_output, proba, predict_calls>>
    /\ UNCHANGED processVars

(* Inference *)

\* a probability matrix row of k columns whose P(default) is s
MatrixRow(s, k) ==
    IF k = 1 THEN <<s>> ELSE <<Scale - s, s>> \o [j \in 1..(k - 2) |-> 0]

\* self._modelo.predict_proba(X): it raises, or returns the rows' P(default)
\* as a flat vector or as a matrix of 1..MaxClasses columns
ModelOutputs(scores) ==
    {[kind |-> "raised", rows |-> <<>>, error |-> "model"]}
        \cup {[kind |-> "vector", rows |-> scores, error |-> ""]}
        \cup {[kind  |-> "matrix",
               rows  |-> [i \in 1..Len(scores) |-> MatrixRow(scores[i], k)],
               error |-> ""] : k \in 1..MaxClasses}

\* (variant: the shape of a matrix is not checked)
predict_proba_any_shape(raw) ==
    IF raw.kind = "raised" THEN raw
    ELSE IF raw.kind = "vector"
    THEN [kind  |-> "matrix",
          rows  |-> [i \in 1..Len(raw.rows) |->
                        <<Scale - raw.rows[i], raw.rows[i]>>],
          error |-> ""]
    ELSE raw

\* ModelProducao.predict_proba, applied to what the model returned
predict_proba(raw) ==
    IF raw.kind = "raised" THEN raw
    ELSE IF raw.kind = "vector"
    THEN [kind  |-> "matrix",
          rows  |-> [i \in 1..Len(raw.rows) |->
                        <<Scale - raw.rows[i], raw.rows[i]>>],
          error |-> ""]
    ELSE IF Len(raw.rows[1]) # 2
    THEN [kind |-> "raised", rows |-> <<>>, error |-> "ValueError"]
    ELSE raw

\* ModelProducao(), predict_proba(X_final) and proba[0, 1] / proba[:, 1]:
\* the runs of the try block; failed names what raised
inference_runs(p, scores) ==
    {[failed       |-> "load",
      calls        |-> 0,
      output       |-> NoOutput,
      proba        |-> NoOutput,
      prob_default |-> <<>>]}
        \cup
    {LET m  == predict_proba(o)
         ok == m.kind = "matrix" /\ Len(m.rows[1]) >= 2
     IN  [failed       |-> IF m.kind = "raised" THEN m.error
                           ELSE IF ~ok THEN "IndexError"
                           ELSE "",
          calls        |-> 1,
          output       |-> o,
          proba        |-> m,
          prob_default |-> IF ~ok THEN <<>>
                           ELSE IF p \in SingleRecordPaths
                           THEN <<m.rows[1][2]>>
                           ELSE [i \in 1..Len(m.rows) |-> m.rows[i][2]]] :
        o \in ModelOutputs(scores)}

\* the model scores the rows of X_final, which are the records frame_index
\* names
RowScores == [i \in 1..Len(frame_index) |-> payload[frame_index[i]].score]

inference_stage ==
    /\ pc = "selected"
    /\ \E run \in inference_runs(path, RowScores) :
          /\ predict_calls' = predict_calls + run.calls
          /\ model_output' = run.output
          /\ proba' = run.proba
          /\ prob_default' = run.prob_default
          /\ IF run.failed # ""
             THEN Respond(model_inference_error(path, run.failed))
             ELSE pc' = "scoring" /\ UNCHANGED response
    /\ UNCHANGED <<path, threshold>>
    /\ UNCHANGED selectVars
    /\ UNCHANGED <<payload, df, frame_index, transform_calls>>
    /\ UNCHANGED processVars

NextPipeline ==
    \/ pydantic_validation
    \/ predict_normalize
    \/ predict_batch_normalize
    \/ prever_risco_normalize
    \/ prever_risco_lote_normalize
    \/ feature_store_stage
    \/ inference_stage
    \/ predict_score
    \/ predict_batch_score
    \/ prever_risco_score
    \/ prever_risco_lote_score

SpecPipeline == InitPipeline /\ [][NextPipeline]_vars

----------------------------------------------------------------------------
(* The model loader: load_production_model reads the model registry under  *)
(* the mlruns directory.  The directory is as some other program left it.  *)

\* "version = 4" of the fallback
FallbackVersion == 4

(* Bounds of the loader model *)

\* directories directly under mlruns
MaxExperiments == 1

\* the versions a registry, an alias or a caller names
Versions == {0, FallbackVersion, FallbackVersion + 1}

\* the model_id of the model registered as version v
ModelId(v) == <<"m", v>>

ModelIds == {ModelId(v) : v \in Versions}

\* the aliases/Production file: absent, or a text that int() takes or not
Aliases ==
    {[exists |-> FALSE, parses |-> FALSE, number |-> 0]}
        \cup {[exists |-> TRUE, parses |-> TRUE, number |-> v] : v \in Versions}
        \cup {[exists |-> TRUE, parses |-> FALSE, number |-> 0]}

\* version-<v>/meta.yaml: absent, without a model_id, or naming ModelId(v)
Metas == {"absent", "empty", "named"}

\* a directory under mlruns: its name is all digits or not, and it holds
\* models/<model_id>/artifacts/model.pkl for at most one model, a file that
\* pickle can load or not
Directories ==
    {[numeric |-> n, holds |-> <<>>, readable |-> FALSE] : n \in BOOLEAN}
        \cup {[numeric |-> n, holds |-> m, readable |-> r] :
                 n \in BOOLEAN, m \in ModelIds, r \in BOOLEAN}

\* mlruns, in the order iterdir() lists its directories
Registries ==
    {NoDirectory}
        \cup {[exists      |-> TRUE,
               alias       |-> a,
               meta        |-> m,
               experiments |-> e] :
                 a \in Aliases,
                 m \in [Versions -> Metas],
                 e \in SeqsUpTo(Directories, MaxExperiments)}

\* the version argument: None, or the version the caller gives
NoVersion == <<>>

VersionArguments == {NoVersion} \cup {<<v>> : v \in Versions}

\* (variant: a version argument of 0 counts as not given)
resolve_version_truthy(fs, v) ==
    IF v # NoVersion /\ v # <<0>>
    THEN [raised |-> "", number |-> v[1]]
    ELSE IF ~fs.alias.exists
    THEN [raised |-> "", number |-> FallbackVersion]
    ELSE IF fs.alias.parses
    THEN [raised |-> "", number |-> fs.alias.number]
    ELSE [raised |-> "ValueError", number |-> 0]

\* "if version is None: ... else: ...": the version to load
resolve_version(fs, v) ==
    IF v # NoVersion
    THEN [raised |-> "", number |-> v[1]]
    ELSE IF ~fs.alias.exists
    THEN [raised |-> "", number |-> FallbackVersion]
    ELSE IF fs.alias.parses
    THEN [raised |-> "", number |-> fs.alias.number]
    ELSE [raised |-> "ValueError", number |-> 0]

\* the meta.yaml of the version is read for its model_id
read_model_id(fs, number) ==
    IF fs.meta[number] = "absent"
    THEN [raised |-> "FileNotFoundError", model_id |-> <<>>]
    ELSE IF fs.meta[number] = "empty"
    THEN [raised |-> "ValueError", model_id |-> <<>>]
    ELSE [raised |-> "", model_id |-> ModelId(number)]

\* experiment_dirs: the positions of the directories whose name isdigit()
experiment_dirs(fs) ==
    SelectSeq([i \in 1..Len(fs.experiments) |-> i],
              LAMBDA i : fs.experiments[i].numeric)

\* (variant: a model found nowhere is answered with no model, not an error)
find_model_or_none(fs, model_id) ==
    LET found == SelectSeq(experiment_dirs(fs),
                           LAMBDA i : fs.experiments[i].holds = model_id)
    IN  IF found = <<>>
        THEN [raised |-> "", model |-> <<>>]
        ELSE IF fs.experiments[Head(found)].readable
        THEN [raised |-> "", model |-> <<Head(found), model_id>>]
        ELSE [raised |-> "UnpicklingError", model |-> <<>>]

\* the loop over experiment_dirs: the first model.pkl found is loaded, and
\* what pickle raises is raised again; the model is told by the directory
\* and the model_id of its file
find_model(fs, model_id) ==
    LET found == SelectSeq(experiment_dirs(fs),
                           LAMBDA i : fs.experiments[i].holds = model_id)
    IN  IF found = <<>>
        THEN [raised |-> "FileNotFoundError", model |-> <<>>]
        ELSE IF fs.experiments[Head(found)].readable
        THEN [raised |-> "", model |-> <<Head(found), model_id>>]
        ELSE [raised |-> "UnpicklingError", model |-> <<>>]

\* the call raised exc; ver is the version its messages name, if any
Raised(exc, ver) ==
    [call    |-> "load_production_model",
     raised  |-> exc,
     version |-> ver,
     model   |-> <<>>]

\* load_production_model(model_name, version) on the registry fs: what it
\* raises or the model it returns, and the version its log and messages name
load_production_model(fs, v) ==
    IF ~fs.exists THEN Raised("FileNotFoundError", <<>>)
    ELSE LET resolved == resolve_version(fs, v)
             ver      == <<resolved.number>>
         IN  IF resolved.raised # "" THEN Raised(resolved.raised, <<>>)
             ELSE LET meta == read_model_id(fs, resolved.number)
                  IN  IF meta.raised # "" THEN Raised(meta.raised, ver)
                      ELSE LET found == find_model(fs, meta.model_id)
                           IN  [call    |-> "load_production_model",
                                raised  |-> found.raised,
                                version |-> ver,
                                model   |-> found.model]

NoStoreCalls ==
    /\ scalers = NoDirectory
    /\ store = NoStore
    /\ store_result = NoCall
    /\ requests = <<>>

InitLoader ==
    /\ NoSelection
    /\ path = "none"
    /\ prob_default = <<>>
    /\ threshold = 0
    /\ response = [status |-> 0]
    /\ pc = "idle"
    /\ payload = <<>>
    /\ df = NoFrame
    /\ frame_index = <<>>
    /\ model_output = NoOutput
    /\ proba = NoOutput
    /\ transform_calls = 0
    /\ predict_calls = 0
    /\ NoStoreCalls
    /\ mlruns \in Registries
    /\ version \in VersionArguments
    /\ loaded = NoCall

load_production_model_call ==
    /\ loaded.call = "none"
    /\ loaded' = load_production_model(mlruns, version)
    /\ UNCHANGED <<mlruns, version, scalers, store, store_result, requests>>
    /\ UNCHANGED selectVars
    /\ UNCHANGED scoreVars
    /\ UNCHANGED pipeVars

NextLoader == load_production_model_call

SpecLoader == InitLoader /\ [][NextLoader]_vars

----------------------------------------------------------------------------
(* The feature store as an object: it is made empty, FeatureStore.load     *)
(* makes a loaded one from the artifact files of the scalers directory,    *)
(* and transform_all and transform are called on whichever the caller      *)
(* holds.                                                                  *)

MaxStoreCalls == 3

\* preprocessor.pkl: absent, not loadable by pickle, or a fitted preprocessor
PreprocessorFiles == {"absent", "corrupt", "fitted"}

\* feature_selection.pkl: absent, not loadable, a mapping without the
\* 'selected_features' key, one whose value under the key is None, or one
\* that lists the canonical names
FeatureSelectionFiles == {"absent", "corrupt", "no key", "none value", "listed"}

\* the canonical lists a feature_selection.pkl may hold
StoredLists == {PipelineCanon, << <<"a">> >>, << <<"b">>, <<"b">> >>}

\* the scalers directory (data_path creates it when it is missing)
ScalersDirectories ==
    {[exists            |-> TRUE,
      preprocessor      |-> p,
      feature_selection |-> f,
      selected_features |-> l] :
        p \in PreprocessorFiles,
        f \in FeatureSelectionFiles \ {"listed"},
        l \in {<<>>}}
        \cup
    {[exists            |-> TRUE,
      preprocessor      |-> p,
      feature_selection |-> "listed",
      selected_features |-> l] :
        p \in PreprocessorFiles, l \in StoredLists}

\* the frames the store's methods are called with
StoreFrames ==
    {DataFrame(<<<<fields>>>>) : fields \in FieldSets}

\* FeatureStore.__init__; an attribute that is None is <<>>, one that is set
\* to x is <<x>>
FeatureStore_init ==
    [made              |-> TRUE,
     preprocessor      |-> <<>>,
     selected_features |-> <<>>,
     _loaded           |-> FALSE]

LoadRaised(exc) == [raised |-> exc, returned |-> NoStore]

\* (variant: a feature selection that cannot be read leaves the store
\* without a canonical list, and the store is returned)
FeatureStore_load_lenient(dir) ==
    IF dir.preprocessor = "absent" THEN LoadRaised("FileNotFoundError")
    ELSE IF dir.preprocessor = "corrupt" THEN LoadRaised("UnpicklingError")
    ELSE [raised   |-> "",
          returned |->
              [made              |-> TRUE,
               preprocessor      |-> <<dir.preprocessor>>,
               selected_features |->
                   IF dir.feature_selection = "listed"
                   THEN <<dir.selected_features>> ELSE <<>>,
               _loaded           |-> TRUE]]

\* FeatureStore.load: the store it returns, or the exception that leaves it
FeatureStore_load(dir) ==
    IF dir.preprocessor = "absent" THEN LoadRaised("FileNotFoundError")
    ELSE IF dir.preprocessor = "corrupt" THEN LoadRaised("UnpicklingError")
    ELSE IF dir.feature_selection = "absent"
    THEN LoadRaised("FileNotFoundError")
    ELSE IF dir.feature_selection = "corrupt"
    THEN LoadRaised("UnpicklingError")
    ELSE IF dir.feature_selection = "no key" THEN LoadRaised("KeyError")
    ELSE IF dir.feature_selection = "none value" THEN LoadRaised("TypeError")
    ELSE [raised   |-> "",
          returned |->
              [made              |-> TRUE,
               preprocessor      |-> <<dir.preprocessor>>,
               selected_features |-> <<dir.selected_features>>,
               _loaded           |-> TRUE]]

NotLoaded ==
    [raised |-> "RuntimeError", columns |-> <<>>, index |-> <<>>, calls |-> 0]

\* (variant: the store does not check that it was loaded)
FeatureStore_transform_all_unguarded(st, frame) ==
    IF st.preprocessor = <<>>
    THEN {[raised  |-> "AttributeError",
           columns |-> <<>>,
           index   |-> <<>>,
           calls   |-> 0]}
    ELSE {[raised  |-> IF x.raised THEN "transform" ELSE "",
           columns |-> x.columns,
           index   |-> x.index,
           calls   |-> x.calls] : x \in transform_all(frame)}

\* FeatureStore.transform_all called on the store st, "if not self._loaded"
\* included
FeatureStore_transform_all(st, frame) ==
    IF ~st._loaded THEN {NotLoaded}
    ELSE {[raised  |-> IF x.raised THEN "transform" ELSE "",
           columns |-> x.columns,
           index   |-> x.index,
           calls   |-> x.calls] : x \in transform_all(frame)}

\* FeatureStore.transform: transform_all, then select_features
FeatureStore_transform(st, frame) ==
    {IF x.raised # "" THEN x
     ELSE LET sel == select_features(st.selected_features[1], x.columns)
          IN  [raised  |-> sel.raised,
               columns |-> sel.columns,
               index   |-> IF sel.raised = "" THEN x.index ELSE <<>>,
               calls   |-> x.calls] :
        x \in FeatureStore_transform_all(st, frame)}

InitStore ==
    /\ NoSelection
    /\ path = "none"
    /\ prob_default = <<>>
    /\ threshold = 0
    /\ response = [status |-> 0]
    /\ pc = "idle"
    /\ payload = <<>>
    /\ df = NoFrame
    /\ frame_index = <<>>
    /\ model_output = NoOutput
    /\ proba = NoOutput
    /\ transform_calls = 0
    /\ predict_calls = 0
    /\ mlruns = NoDirectory
    /\ version = NoVersion
    /\ loaded = NoCall
    /\ requests = <<>>
    /\ scalers \in ScalersDirectories
    /\ store = NoStore
    /\ store_result = NoCall

\* what a call on the store leaves alone
StoreCall ==
    /\ store_result.n < MaxStoreCalls
    /\ UNCHANGED <<mlruns, version, loaded, scalers, requests>>
    /\ UNCHANGED selectVars
    /\ UNCHANGED scoreVars
    /\ UNCHANGED <<payload, df, frame_index, model_output, proba, predict_calls>>

\* store = FeatureStore()
FeatureStore_init_call ==
    /\ StoreCall
    /\ store' = FeatureStore_init
    /\ store_result' =
          [call |-> "__init__", n |-> store_result.n + 1, raised |-> "",
           columns |-> <<>>]
    /\ UNCHANGED transform_calls

\* store = FeatureStore.load(): the name is bound when load returns
FeatureStore_load_call ==
    /\ StoreCall
    /\ LET result == FeatureStore_load(scalers)
       IN  /\ store' = IF result.raised = "" THEN result.returned ELSE store
           /\ store_result' =
                 [call |-> "load", n |-> store_result.n + 1,
                  raised |-> result.raised, columns |-> <<>>]
    /\ UNCHANGED transform_calls

\* a method of the store the caller holds returned or raised
MethodCall(name, outcomes) ==
    /\ StoreCall
    /\ \E x \in outcomes :
          /\ store_result' =
                [call |-> name, n |-> store_result.n + 1,
                 raised |-> x.raised, columns |-> x.columns]
          /\ transform_calls' = transform_calls + x.calls
    /\ UNCHANGED store

\* store.transform_all(df_raw)
FeatureStore_transform_all_call ==
    /\ store.made
    /\ \E frame \in StoreFrames :
          MethodCall("transform_all",
                     FeatureStore_transform_all(store, frame))

\* store.transform(df_raw)
FeatureStore_transform_call ==
    /\ store.made
    /\ \E frame \in StoreFrames :
          MethodCall("transform", FeatureStore_transform(store, frame))

NextStore ==
    \/ FeatureStore_init_call
    \/ FeatureStore_load_call
    \/ FeatureStore_transform_all_call
    \/ FeatureStore_transform_call

SpecStore == InitStore /\ [][NextStore]_vars

----------------------------------------------------------------------------
(* Two calls of the API at once.  A handler keeps everything it works on   *)
(* in local names; what two calls share are the artifact files, which the  *)
(* handlers read: each call loads its own store and its own model from     *)
(* them.  The fitted preprocessor and the model are the objects pickled in *)
(* those files, so both calls meet the same ones.                          *)

Callers == {1, 2}

\* the scalers directory, with what the preprocessor pickled in it does with
\* a frame of the expected columns
PairScalers ==
    {[exists            |-> TRUE,
      preprocessor      |-> "fitted",
      feature_selection |-> "listed",
      selected_features |-> PipelineCanon,
      transform         |-> o] :
        o \in PreprocessorOutcomes(DataFrame(<<<<expected_cols>>>>))}
        \cup
    {[exists            |-> TRUE,
      preprocessor      |-> "fitted",
      feature_selection |-> "no key",
      selected_features |-> <<>>,
      transform         |-> [raised |-> TRUE, columns |-> <<>>]]}

\* mlruns with the Production alias on a model that is there, and the shape
\* of what that model's predict_proba returns
PairRegistries ==
    {[exists |-> FALSE, kind |-> "raised", classes |-> 0]}
        \cup
    {[exists      |-> TRUE,
      alias       |-> [exists |-> TRUE, parses |-> TRUE,
                       number |-> FallbackVersion],
      meta        |-> [v \in Versions |-> "named"],
      experiments |-> <<[numeric  |-> TRUE,
                         holds    |-> ModelId(FallbackVersion),
                         readable |-> TRUE]>>,
      kind        |-> o.kind,
      classes     |-> IF o.kind = "matrix" THEN Len(o.rows[1]) ELSE 0] :
        o \in ModelOutputs(<<0>>)}

\* the records and thresholds of the two calls
PairRecords ==
    {[levels |-> <<fields>>, score |-> s] :
        fields \in FieldSets \ {{}}, s \in {TierLowMax, DefaultThreshold}}

PairThresholds == {0, DefaultThreshold, Scale}

\* a call that was received: nothing has run
Call(p, rec, t) ==
    [pc           |-> "received",
     path         |-> p,
     record       |-> rec,
     threshold    |-> t,
     feats        |-> <<>>,
     df           |-> NoFrame,
     columns      |-> <<>>,
     index        |-> <<>>,
     selection    |-> NotCalled,
     prob_default |-> <<>>,
     response     |-> [status |-> 0]]

Ended(r, resp) == [r EXCEPT !.pc = "done", !.response = resp]

\* request validation, and the frame of the record: /predict checks the
\* expected columns, /predict_batch makes the frame of its only record
handler_normalize(r) ==
    IF ~threshold_allowed(r.threshold) THEN Ended(r, validation_error)
    ELSE IF r.path = "predict"
    THEN LET frame == DataFrame(<<unwrap(r.record.levels)>>)
         IN  IF missing_cols(frame) # {}
             THEN Ended(r, invalid_input("missing columns"))
             ELSE [r EXCEPT !.pc = "normalized", !.df = frame]
    ELSE [r EXCEPT !.pc = "normalized",
                   !.df = DataFrame(<<r.record.levels>>)]

\* store = FeatureStore.load()
handler_load(r, dir) ==
    LET result == FeatureStore_load(dir)
    IN  IF result.raised # ""
        THEN Ended(r, feature_store_error(r.path, "load"))
        ELSE [r EXCEPT !.pc = "loaded",
                       !.feats = result.returned.selected_features[1]]

\* X_full = store.transform_all(df), with the preprocessor of the directory
handler_transform(r, dir) ==
    {IF x.raised
     THEN Ended(r, feature_store_error(r.path, "transform"))
     ELSE [r EXCEPT !.pc = "transformed",
                    !.columns = x.columns,
                    !.index = x.index] :
        x \in {y \in transform_all(r.df) :
                  IF missing_cols(r.df) # {} THEN y.raised
                  ELSE /\ y.raised = dir.transform.raised
                       /\ y.columns = dir.transform.columns}}

\* X_final = store.select_features(X_full)
handler_select(r) ==
    LET sel == select_features(r.feats, r.columns)
    IN  IF sel.raised # ""
        THEN Ended(r, feature_store_error(r.path, "feature match"))
        ELSE [r EXCEPT !.pc = "selected", !.selection = sel]

\* ModelProducao() and predict_proba(X_final), with the model of the registry
handler_infer(r, reg) ==
    LET scores == [i \in 1..Len(r.index) |-> r.record.score]
        model  == load_production_model(reg, NoVersion)
    IN  {IF run.failed # ""
         THEN Ended(r, model_inference_error(r.path, run.failed))
         ELSE [r EXCEPT !.pc = "scoring", !.prob_default = run.prob_default] :
            run \in {x \in inference_runs(r.path, scores) :
                        IF model.raised # "" THEN x.failed = "load"
                        ELSE /\ x.failed # "load"
                             /\ x.output.kind = reg.kind
                             /\ reg.kind = "matrix"
                                   => Len(x.output.rows[1]) = reg.classes}}

\* scoring and the response
handler_score(r) ==
    {Ended(r, resp) :
        resp \in IF r.path = "predict"
                 THEN predict_responses(r.prob_default[1], r.threshold)
                 ELSE predict_batch_responses(r.prob_default, r.threshold)}

\* what the handler does next, at the point a call is
handler_step(r, dir, reg) ==
    IF r.pc = "received" THEN {handler_normalize(r)}
    ELSE IF r.pc = "normalized" THEN {handler_load(r, dir)}
    ELSE IF r.pc = "loaded" THEN handler_transform(r, dir)
    ELSE IF r.pc = "transformed" THEN {handler_select(r)}
    ELSE IF r.pc = "selected" THEN handler_infer(r, reg)
    ELSE IF r.pc = "scoring" THEN handler_score(r)
    ELSE {}

InitPair ==
    /\ NoSelection
    /\ path = "none"
    /\ prob_default = <<>>
    /\ threshold = 0
    /\ response = [status |-> 0]
    /\ pc = "idle"
    /\ payload = <<>>
    /\ df = NoFrame
    /\ frame_index = <<>>
    /\ model_output = NoOutput
    /\ proba = NoOutput
    /\ transform_calls = 0
    /\ predict_calls = 0
    /\ version = NoVersion
    /\ loaded = NoCall
    /\ store = NoStore
    /\ store_result = NoCall
    /\ scalers \in PairScalers
    /\ mlruns \in PairRegistries
    /\ requests \in [Callers -> {Call(p, rec, t) : p \in APIPaths,
                                                  rec \in PairRecords,
                                                  t \in PairThresholds}]

\* the call i goes on to one of nexts; nothing outside the call changes
Advance(i, nexts) ==
    /\ \E n \in nexts : requests' = [requests EXCEPT ![i] = n]
    /\ UNCHANGED <<mlruns, version, loaded, store, store_result>>
    /\ UNCHANGED selectVars
    /\ UNCHANGED scoreVars
    /\ UNCHANGED pipeVars

pair_normalize ==
    \E i \in Callers :
        /\ requests[i].pc = "received"
        /\ Advance(i, handler_step(requests[i], scalers, mlruns))
        /\ UNCHANGED scalers

pair_load ==
    \E i \in Callers :
        /\ requests[i].pc = "normalized"
        /\ Advance(i, handler_step(requests[i], scalers, mlruns))
        /\ UNCHANGED scalers

pair_transform ==
    \E i \in Callers :
        /\ requests[i].pc = "loaded"
        /\ Advance(i, handler_step(requests[i], scalers, mlruns))
        /\ UNCHANGED scalers

\* (variant: the reconciled names are saved as the canonical list)
pair_select_saves ==
    \E i \in Callers :
        /\ requests[i].pc = "transformed"
        /\ Advance(i, handler_step(requests[i], scalers, mlruns))
        /\ scalers' =
              [scalers EXCEPT !.selected_features =
                  select_features(requests[i].feats,
                                  requests[i].columns).columns]

pair_select ==
    \E i \in Callers :
        /\ requests[i].pc = "transformed"
        /\ Advance(i, handler_step(requests[i], scalers, mlruns))
        /\ UNCHANGED scalers

pair_infer ==
    \E i \in Callers :
        /\ requests[i].pc = "selected"
        /\ Advance(i, handler_step(requests[i], scalers, mlruns))
        /\ UNCHANGED scalers

pair_score ==
    \E i \in Callers :
        /\ requests[i].pc = "scoring"
        /\ Advance(i, handler_step(requests[i], scalers, mlruns))
        /\ UNCHANGED scalers

NextPair ==
    \/ pair_normalize
    \/ pair_load
    \/ pair_transform
    \/ pair_select
    \/ pair_infer
    \/ pair_score

SpecPair == InitPair /\ [][NextPair]_vars

----------------------------------------------------------------------------
(* Claims about risk scoring *)

Done == pc = "done"

\* min(|p - t| * 2, 1)
NormalizedConfidence(p, t) == Min(Abs(p - t) * 2, Scale)

\* v is x rounded to the 4 decimals of the responses
IsRounded4(v, x) == v % RoundUnit = 0 /\ 2 * Abs(v - x) <= RoundUnit

HighRiskIff(label, p, t) ==
    /\ label = "Alto Risco" <=> p >= t
    /\ label = "Baixo Risco" <=> p < t

\* C1: in the single-record paths and, row by row, in the batch paths, the
\* classification is "Alto Risco" exactly when the probability is at least the
\* threshold and "Baixo Risco" otherwise; p = t is "Alto Risco".
C1_HighRiskIffAtLeastThreshold ==
    Done =>
        /\ path \in SingleRecordPaths =>
              HighRiskIff(response.classificacao, prob_default[1], threshold)
        /\ path \in BatchPaths =>
              /\ Len(response.results) = Len(prob_default)
              /\ \A i \in 1..Len(prob_default) :
                    HighRiskIff(response.results[i].classificacao,
                                prob_default[i], threshold)

C1_Witness ==
    /\ Done
    /\ path = "predict"
    /\ prob_default[1] = threshold
    /\ threshold = DefaultThreshold
    /\ response.classificacao = "Alto Risco"

\* C2 as stated: the normalised confidence of the /predict result equals
\* min(|p - t| * 2, 1).
C2_ConfidenceExact ==
    Done /\ path = "predict" =>
        response.nivel_confianca = NormalizedConfidence(prob_default[1], threshold)

\* C2 as amended: the normalised confidence of the /predict result is
\* min(|p - t| * 2, 1) rounded to 4 decimals; it lies in [0,1], is the same
\* with p and t exchanged, is 0 when p = t and 1 when |p - t| >= 0.5.
C2_ConfidenceRounded ==
    Done /\ path = "predict" =>
        LET p == prob_default[1]
            c == response.nivel_confianca
        IN  /\ IsRounded4(c, NormalizedConfidence(p, threshold))
            /\ 0 <= c /\ c <= Scale
            /\ c \in {r.nivel_confianca : r \in predict_responses(threshold, p)}
            /\ p = threshold => c = 0
            /\ 2 * Abs(p - threshold) >= Scale => c = Scale

C2_Witness ==
    /\ Done
    /\ path = "predict"
    /\ response.nivel_confianca # NormalizedConfidence(prob_default[1], threshold)
    /\ response.nivel_confianca > 0

\* C3: the risk tier of the /predict result is "Baixo" for p <= 0.30, "Medio"
\* for 0.30 < p <= 0.60 and "Alto" above; it is the same under every threshold.
C3_TierByProbabilityAlone ==
    Done /\ path = "predict" =>
        LET p == prob_default[1]
        IN  /\ p <= TierLowMax => response.nivel_risco = "Baixo"
            /\ TierLowMax < p /\ p <= TierMediumMax => response.nivel_risco = "Medio"
            /\ TierMediumMax < p => response.nivel_risco = "Alto"
            /\ \A t \in Thresholds : \A r \in predict_responses(p, t) :
                  r.nivel_risco = response.nivel_risco

C3_Witness ==
    /\ Done
    /\ path = "predict"
    /\ prob_default[1] = TierMediumMax
    /\ response.nivel_risco = "Medio"
    /\ response.classificacao = "Alto Risco"

\* C4 as stated: the confidence of every batch row is min(|p - t| * 2, 1)
\* (to the 4 decimals of the response), as in single-record scoring.
C4_BatchConfidenceNormalized ==
    Done /\ path \in BatchPaths =>
        \A i \in 1..Len(prob_default) :
            IsRounded4(response.results[i].confianca,
                       NormalizedConfidence(prob_default[i], threshold))

----------------------------------------------------------------------------
(* Vocabulary of the feature-matcher claims *)

Range(s) == {s[i] : i \in 1..Len(s)}

RECURSIVE Flatten(_)
Flatten(ss) == IF ss = <<>> THEN <<>> ELSE Head(ss) \o Flatten(Tail(ss))

Called == calls > 0

Succeeded == Called /\ selection.raised = ""

IsColumn(f) == f \in Range(all_columns)

SuffixTier(f) ==
    {c \in Range(all_columns) : EndsWith(c, Delimiter \o f) \/ EndsWith(c, f)}

ContainmentTier(f) == {c \in Range(all_columns) : Contains(c, f)}

\* f matches some transformed column under the exact, suffix or containment tier
MatchesSomeColumn(f) ==
    IsColumn(f) \/ SuffixTier(f) # {} \/ ContainmentTier(f) # {}

SoftMiss(i) == matched[i] = <<>>

FirstIndex(x, s) == CHOOSE i \in 1..Len(s) : s[i] = x /\ \A j \in 1..(i - 1) : s[j] # x

\* r is s without its repeats, in order of first occurrence
IsFirstOccurrenceDedup(r, s) ==
    /\ NoRepeat(r)
    /\ Range(r) = Range(s)
    /\ \A i, j \in 1..Len(r) : i < j => FirstIndex(r[i], s) < FirstIndex(r[j], s)

\* s keeps the relative order its elements have in t (t without repeats)
InOrderOf(s, t) ==
    \A i, j \in 1..Len(s) : i < j => FirstIndex(s[i], t) < FirstIndex(s[j], t)

\* C5: select_features raises the fatal feature-match error exactly when no
\* canonical name matches any transformed column under any of the three tiers;
\* when at least one name matches it succeeds with at least one column, however
\* many other names are soft misses.
C5_FatalIffNothingMatches ==
    Called =>
        LET anyMatch == \E i \in 1..Len(selected_features) :
                            MatchesSomeColumn(selected_features[i])
        IN  /\ selection.raised = "ValueError" <=> ~anyMatch
            /\ anyMatch => selection.raised = "" /\ Len(selection.columns) >= 1

C5_Witness ==
    /\ Succeeded
    /\ Len(selection.columns) >= 1
    /\ \E i \in 1..Len(selected_features) : ~MatchesSomeColumn(selected_features[i])

\* C6: the ordered selection returned by select_features never holds a column
\* name twice, also when the match patterns of two canonical names overlap.
C6_NoRepeatedColumn == Succeeded => NoRepeat(selection.columns)

C6_Witness ==
    /\ Succeeded
    /\ \E i, j \in 1..Len(matched) :
          /\ selected_features[i] # selected_features[j]
          /\ Range(matched[i]) \cap Range(matched[j]) # {}

\* C7: a canonical name that is itself a transformed column contributes exactly
\* that column; a column that merely ends with or contains it enters the
\* selection only through another, not exactly matched, canonical name.
C7_ExactMatchOnly ==
    Called =>
        /\ \A i \in 1..Len(selected_features) :
              IsColumn(selected_features[i]) => matched[i] = <<selected_features[i]>>
        /\ \A c \in Range(selection.columns) :
              \/ c \in Range(selected_features)
              \/ \E i \in 1..Len(selected_features) :
                    /\ ~IsColumn(selected_features[i])
                    /\ Contains(c, selected_features[i])

C7_Witness ==
    /\ Succeeded
    /\ \E i \in 1..Len(selected_features) :
          /\ IsColumn(selected_features[i])
          /\ \E c \in SuffixTier(selected_features[i]) :
                c # selected_features[i] /\ c \notin Range(selection.columns)

\* C8: for a canonical name f with no exact match, if some column ends with
\* "__"+f or with f, the name contributes every such column and no column that
\* only contains f elsewhere; the containment tier (every column containing f)
\* is used for f only when the suffix tier is empty.
C8_SuffixBeforeContainment ==
    Called =>
        \A i \in 1..Len(selected_features) :
            LET f == selected_features[i]
            IN  ~IsColumn(f) =>
                    /\ NoRepeat(matched[i])
                    /\ Range(matched[i]) =
                          IF SuffixTier(f) # {} THEN SuffixTier(f) ELSE ContainmentTier(f)

C8_Witness ==
    /\ Called
    /\ \E i \in 1..Len(selected_features) :
          LET f == selected_features[i]
          IN  /\ ~IsColumn(f)
              /\ SuffixTier(f) # {}
              /\ ContainmentTier(f) \ SuffixTier(f) # {}
              /\ Range(matched[i]) = SuffixTier(f)

\* C9: the selection is the first-occurrence-order deduplication of the
\* concatenation, over canonical names in contract order, of each name's matched
\* columns (each name's matches in transformed-column order); a soft miss
\* contributes nothing and leaves the other names' contributions as they are.
C9_OrderedDedupOfMatches ==
    Called =>
        /\ \A i \in 1..Len(matched) : InOrderOf(matched[i], all_columns)
        /\ Succeeded => IsFirstOccurrenceDedup(selection.columns, Flatten(matched))
        /\ LET hits == SelectSeq(selected_features, MatchesSomeColumn)
           IN  /\ \A i \in 1..Len(matched) :
                     ~MatchesSomeColumn(selected_features[i]) => SoftMiss(i)
               /\ select_features(hits, all_columns) = selection

C9_Witness ==
    /\ Succeeded
    /\ Len(all_columns) = 2
    /\ selection.columns = <<all_columns[2], all_columns[1]>>
    /\ \E i \in 1..Len(matched) : Len(matched[i]) = 2

\* C10: a second select_features call on the same store and frame returns the
\* selection the first one returned, and no call changes the canonical feature
\* list or the frame's columns.
C10_IdempotentAndReadOnly ==
    [][calls' # calls =>
          /\ selected_features' = selected_features
          /\ all_columns' = all_columns
          /\ (Called => selection' = selection)]_vars

C10_Witness == calls = MaxCalls /\ Succeeded /\ Len(selection.columns) >= 2

----------------------------------------------------------------------------
(* Claims about the request pipeline *)

\* the raw frame the entry point builds from the payload
NormalizedFrame ==
    IF path = "predict"
    THEN DataFrame(<<unwrap(payload[1].levels)>>)
    ELSE DataFrame([i \in 1..Len(payload) |-> payload[i].levels])

LacksRequiredField == missing_cols(NormalizedFrame) # {}

\* the category under which a response reports a failure
Category(r) == r.error

\* C11: on /predict and on /predict_batch, a request whose raw frame lacks a
\* required field ends with an input-validation failure, the preprocessor's
\* transform was never called, and the failure's category is not the one a
\* feature-match failure is reported in.
C11_MissingFieldRejectedBeforeTransform ==
    (Done /\ path \in APIPaths /\ threshold_allowed(threshold)
          /\ LacksRequiredField)
        => /\ response.status = 400
           /\ Category(response) = Category(invalid_input(""))
           /\ transform_calls = 0
           /\ Category(response)
                 # Category(feature_store_error(path, "feature match"))

\* C12: on each of the four entry points, a request whose threshold lies
\* outside [0,1] never reaches the transform, the selection or the model and
\* returns no assessment; it ends with a validation error.
C12_ThresholdOutsideUnitIntervalRejected ==
    ~threshold_allowed(threshold)
        => /\ transform_calls = 0
           /\ calls = 0
           /\ predict_calls = 0
           /\ response.status # 200
           /\ Done => Category(response) = Category(validation_error)

\* the request ended with a failure whose exception came from the named call
FailedIn(call) ==
    Done /\ response.status \notin {0, 200} /\ response.message = call

\* C13: when the preprocessor's transform raises, the API reports the failure
\* in a category other than the one it reports a feature-match failure in
\* (no canonical name matches any transformed column).
C13_TransformFailureHasItsOwnCategory ==
    (path \in APIPaths /\ FailedIn("transform"))
        => Category(response)
              # Category(feature_store_error(path, "feature match"))

\* the model's own predict_proba was called and returned an array
ModelReturned == model_output.kind \in {"vector", "matrix"}

Columns(raw) == IF raw.kind = "vector" THEN 1 ELSE Len(raw.rows[1])

\* the values of the only column of a single-column output
ColumnValues(raw) ==
    IF raw.kind = "vector" THEN raw.rows
    ELSE [i \in 1..Len(raw.rows) |-> raw.rows[i][1]]

\* C14: whenever the model's own output has a single column of n values, as
\* a flat vector or as an n-by-1 matrix, ModelProducao.predict_proba returns
\* the n-by-2 matrix whose i-th row is (1 - value, value) of the i-th value.
C14_SingleColumnBecomesTwoColumns ==
    (ModelReturned /\ Columns(model_output) = 1)
        => /\ proba.kind = "matrix"
           /\ proba.rows =
                 [i \in 1..Len(model_output.rows) |->
                     <<Scale - ColumnValues(model_output)[i],
                       ColumnValues(model_output)[i]>>]

\* C15: a matrix from the model whose number of columns is not 2 makes the
\* request fail with the model error and no assessment for any row; a matrix
\* of exactly 2 columns, and the 2-column matrix made of a flat vector, is
\* what ModelProducao.predict_proba returns and scoring goes on from it.
C15_OnlyTwoColumnsAccepted ==
    ModelReturned
        => IF model_output.kind = "matrix" /\ Columns(model_output) # 2
           THEN /\ proba.kind = "raised"
                /\ prob_default = <<>>
                /\ Done
                /\ response = model_inference_error(path, "ValueError")
                /\ response.status # 200
           ELSE /\ proba.kind = "matrix"
                /\ model_output.kind = "matrix" => proba = model_output
                /\ \A i \in 1..Len(proba.rows) : Len(proba.rows[i]) = 2
                /\ Len(prob_default) > 0
                /\ Done => response.status = 200

C15_Witness ==
    /\ Done
    /\ path = "predict_batch"
    /\ model_output.kind = "matrix"
    /\ Columns(model_output) = MaxClasses
    /\ Len(model_output.rows) = MaxRows
    /\ response.status = 500

\* C16: in every execution of a request, on any of the entry points, the
\* preprocessor's transform and the model's predict_proba are each called at
\* most once; a call that raised was made exactly once and not again.
C16_ExternalCallsAtMostOnce ==
    /\ transform_calls <= 1
    /\ predict_calls <= 1
    /\ FailedIn("transform") => transform_calls = 1 /\ predict_calls = 0
    /\ model_output.kind = "raised" => predict_calls = 1

C16_Witness ==
    /\ FailedIn("transform")
    /\ path = "predict"
    /\ transform_calls = 1

\* a batch request that returned its results
BatchScored == Done /\ path \in BatchPaths /\ response.status = 200

\* C17: a batch of N >= 1 records that is scored returns exactly N results,
\* the i-th of them being the assessment of the i-th record (the rounded
\* P(default) the model gives that record, classified against the request's
\* threshold); the transformed and selected frames have the raw frame's row
\* index, one row per record.
C17_BatchResultsAlignedWithRecords ==
    BatchScored
        => /\ Len(response.results) = Len(payload)
           /\ \A i \in 1..Len(payload) :
                 /\ IsRounded4(response.results[i].probabilidade_default,
                               payload[i].score)
                 /\ HighRiskIff(response.results[i].classificacao,
                                payload[i].score, threshold)
           /\ frame_index = df.index
           /\ frame_index = [i \in 1..Len(payload) |-> i]

C17_Witness ==
    /\ BatchScored
    /\ path = "predict_batch"
    /\ Len(payload) >= 2
    /\ payload[1].score # payload[2].score
    /\ payload[1].score < threshold
    /\ payload[2].score >= threshold

\* select_features succeeded although some canonical name matched no column
PartialMiss ==
    /\ Succeeded
    /\ \E i \in 1..Len(matched) : SoftMiss(i)

\* the fields of a returned assessment that tell the score
ScoreFields ==
    {"status", "results", "probabilidade_default", "probabilidade_percentual",
     "classificacao", "nivel_risco", "confianca", "nivel_confianca",
     "threshold_usado"}

\* the response has a field that is not part of the score
CarriesMetadata(r) == DOMAIN r \ ScoreFields # {}

\* C18: when some but not all canonical names are soft misses, the feature
\* match does not fail, and an assessment returned for the request carries a
\* reconciliation report (selected against expected count, the unmatched
\* names) beside the score.
C18_PartialMissReported ==
    (Done /\ PartialMiss)
        => /\ ~FailedIn("feature match")
           /\ response.status = 200 => CarriesMetadata(response)

\* the probabilities of default a returned assessment reports
ReturnedProbabilities ==
    IF path \in SingleRecordPaths
    THEN {response.probabilidade_default}
    ELSE {response.results[i].probabilidade_default :
             i \in 1..Len(response.results)}

\* C19: a P(default) outside [0,1] from the model makes the request fail with
\* no assessment, so every probability a returned assessment reports lies in
\* [0,1].
C19_ReturnedProbabilityInUnitInterval ==
    (Done /\ response.status = 200)
        => /\ \A i \in 1..Len(prob_default) :
                 0 <= prob_default[i] /\ prob_default[i] <= Scale
           /\ \A p \in ReturnedProbabilities : 0 <= p /\ p <= Scale

\* the /predict handler ran and is past the try block that builds the raw
\* frame
PastNormalize ==
    /\ path = "predict"
    /\ threshold_allowed(threshold)
    /\ pc \notin {"received", "handler"}

\* C20: on /predict, a feature mapping that holds another mapping under
\* 'features' is replaced by that inner mapping, once: the request goes on
\* with the frame a flat payload of the inner mapping's keys gives; a mapping
\* nested deeper stays under the 'features' key of the inner mapping, and the
\* request is rejected as invalid input, before any transform, when the inner
\* mapping lacks a required field.
C20_UnwrappedExactlyOnce ==
    LET levels == payload[1].levels
    IN  (PastNormalize /\ Len(levels) >= 2)
            => IF expected_cols \subseteq levels[2]
               THEN /\ df.columns = Keys(levels, 2)
                    /\ Len(levels) = 2 => df = DataFrame(<<<<levels[2]>>>>)
                    /\ df.index = <<1>>
                    /\ response.status # 400
               ELSE /\ Done
                    /\ response = invalid_input("missing columns")
                    /\ df = NoFrame
                    /\ transform_calls = 0

C20_Witness ==
    /\ PastNormalize
    /\ Done
    /\ Len(payload[1].levels) = 2
    /\ payload[1].levels[1] = {}
    /\ payload[1].levels[2] = expected_cols
    /\ response.status = 200

----------------------------------------------------------------------------
(* Claims about the matcher on the service's names *)

\* select_features was called with canonical names [person_income,
\* loan_grade] on a frame whose columns are num__person_income and
\* cat__loan_grade_A
ScenarioCase ==
    /\ Called
    /\ selected_features = <<person_income, loan_grade>>
    /\ Range(all_columns) = {num__person_income, cat__loan_grade_A}

\* C24: in that case person_income, not a column itself, is matched by the
\* suffix tier to num__person_income; loan_grade, matched by neither the
\* exact nor the suffix tier, is matched by the containment tier to
\* cat__loan_grade_A; the selection is [num__person_income,
\* cat__loan_grade_A].
C24_ScenarioSelection ==
    ScenarioCase
        => /\ ~IsColumn(person_income)
           /\ SuffixTier(person_income) = {num__person_income}
           /\ matched[1] = <<num__person_income>>
           /\ ~IsColumn(loan_grade)
           /\ SuffixTier(loan_grade) = {}
           /\ ContainmentTier(loan_grade) = {cat__loan_grade_A}
           /\ matched[2] = <<cat__loan_grade_A>>
           /\ selection = [raised  |-> "",
                           columns |-> <<num__person_income,
                                         cat__loan_grade_A>>]

C24_Witness ==
    /\ ScenarioCase
    /\ all_columns = <<cat__loan_grade_A, num__person_income>>
    /\ Succeeded

\* l without the later repetitions of each of its elements
RECURSIVE FirstOccurrences(_)
FirstOccurrences(l) ==
    IF l = <<>> THEN <<>>
    ELSE LET front == FirstOccurrences(SubSeq(l, 1, Len(l) - 1))
             last  == l[Len(l)]
         IN  IF last \in Range(front) THEN front ELSE Append(front, last)

\* C25: a canonical list that holds a name more than once is accepted, and
\* select_features returns for it what it returns, on the same frame, for
\* the list without the later repetitions: the same ordered selection, or
\* the same failure when nothing matches.
C25_RepeatedCanonicalNamesTolerated ==
    Called
        => selection =
              select_features(FirstOccurrences(selected_features), all_columns)

C25_Witness ==
    /\ Succeeded
    /\ ~NoRepeat(selected_features)
    /\ Len(selection.columns) = MaxCols

----------------------------------------------------------------------------
(* Claims about the model loader *)

LoaderCalled == loaded.call = "load_production_model"

\* the Production alias cannot be read as an integer although it is needed
AliasUnreadable ==
    version = NoVersion /\ mlruns.alias.exists /\ ~mlruns.alias.parses

\* the version to load: the one given, else the alias's, else the fallback
ExpectedVersion ==
    IF version # NoVersion THEN version[1]
    ELSE IF mlruns.alias.exists THEN mlruns.alias.number
    ELSE FallbackVersion

NoPickleOf(model_id) ==
    \A i \in 1..Len(mlruns.experiments) :
        mlruns.experiments[i].numeric => mlruns.experiments[i].holds # model_id

\* a required artifact is absent
ArtifactAbsent ==
    \/ ~mlruns.exists
    \/ /\ ~AliasUnreadable
       /\ \/ mlruns.meta[ExpectedVersion] = "absent"
          \/ mlruns.meta[ExpectedVersion] = "empty"
          \/ NoPickleOf(ModelId(ExpectedVersion))

----------------------------------------------------------------------------
(* Claims about the feature store object *)

Loadable(dir) ==
    dir.preprocessor = "fitted" /\ dir.feature_selection = "listed"

FullyLoaded(st) ==
    /\ st.made
    /\ st._loaded
    /\ st.preprocessor = <<scalers.preprocessor>>
    /\ st.selected_features = <<scalers.selected_features>>

LoadCalled == store_result.call = "load"

\* C28: FeatureStore.load is all-or-nothing. A store it returned has _loaded
\* true, the preprocessor of preprocessor.pkl and the canonical list of
\* feature_selection.pkl; when either artifact cannot be loaded (file
\* missing, unreadable, no 'selected_features' key) load raises, and the
\* caller holds no store that is loaded or that carries only one of the two.
C28_LoadAllOrNothing ==
    /\ store.made => (store = FeatureStore_init \/ FullyLoaded(store))
    /\ (store.made /\ store._loaded) => Loadable(scalers)
    /\ LoadCalled =>
          IF Loadable(scalers)
          THEN store_result.raised = "" /\ FullyLoaded(store)
          ELSE /\ store_result.raised # ""
               /\ ~(store.made /\ store._loaded)
               /\ (scalers.preprocessor = "absent"
                      => store_result.raised = "FileNotFoundError")
               /\ (scalers.preprocessor = "fitted"
                   /\ scalers.feature_selection = "absent"
                      => store_result.raised = "FileNotFoundError")
               /\ (scalers.preprocessor = "fitted"
                   /\ scalers.feature_selection = "no key"
                      => store_result.raised = "KeyError")

\* load raised on the second artifact after the first was read
C28_Witness ==
    /\ LoadCalled
    /\ scalers.preprocessor = "fitted"
    /\ scalers.feature_selection = "no key"
    /\ store_result.raised = "KeyError"
    /\ ~store.made

MethodCalled ==
    /\ store_result' # store_result
    /\ store_result'.call \in {"transform_all", "transform"}

\* C29: on a store that load did not produce (_loaded false) transform_all
\* and transform raise the 'store not loaded' RuntimeError, the preprocessor
\* is not invoked, no selection is made and the store is as it was.
C29_UnloadedStoreRefuses ==
    [][(store.made /\ ~store._loaded /\ MethodCalled)
          => /\ store_result'.raised = "RuntimeError"
             /\ store_result'.columns = <<>>
             /\ transform_calls' = transform_calls
             /\ store' = store]_vars

C29_Witness ==
    /\ store.made
    /\ ~store._loaded
    /\ store_result.call = "transform"
    /\ store_result.raised = "RuntimeError"
    /\ transform_calls = 0

----------------------------------------------------------------------------
(* Claims about the order of the pipeline's stages *)

Failed == Done /\ response.status # 200

\* what has run when the request is at this point: the frame was built, the
\* preprocessor, select_features and the model were called
Ran == <<df # NoFrame, transform_calls, calls, predict_calls>>

\* a stage has run at most once, and only after every stage before it
InOrder ==
    /\ transform_calls \in {0, 1}
    /\ calls \in {0, 1}
    /\ predict_calls \in {0, 1}
    /\ transform_calls = 1 => df # NoFrame
    /\ calls = 1 => transform_calls = 1
    /\ predict_calls = 1 => (calls = 1 /\ selection.raised = "")
    /\ pc \in {"received", "handler"} => Ran = <<FALSE, 0, 0, 0>>
    /\ pc = "normalized" => Ran = <<TRUE, 0, 0, 0>>
    /\ pc = "selected" => Ran = <<TRUE, 1, 1, 0>>
    /\ pc = "scoring" => Ran = <<TRUE, 1, 1, 1>>

\* the failure a request ended with is that of the first stage that failed,
\* and no stage after it has run
FirstFailure ==
    /\ response.error \in {"validation_error", "invalid input"}
          => (transform_calls = 0 /\ calls = 0 /\ predict_calls = 0)
    /\ response.error = "feature store error"
          => /\ predict_calls = 0
             /\ prob_default = <<>>
             /\ response.message = "load" => Ran = <<TRUE, 0, 0, 0>>
             /\ response.message = "transform" => Ran = <<TRUE, 1, 0, 0>>
             /\ response.message = "feature match"
                   => (Ran = <<TRUE, 1, 1, 0>> /\ selection.raised # "")
    /\ response.error = "model inference error"
          => (transform_calls = 1 /\ calls = 1 /\ selection.raised = "")
    /\ response.error = "exception"
          => \/ Ran = <<TRUE, 0, 0, 0>> /\ response.message = "load"
             \/ Ran = <<TRUE, 1, 0, 0>> /\ response.message = "transform"
             \/ /\ Ran = <<TRUE, 1, 1, 0>>
                /\ selection.raised # ""
                /\ response.message = "feature match"
             \/ /\ transform_calls = 1
                /\ calls = 1
                /\ selection.raised = ""
                /\ response.message \notin {"transform", "feature match"}

OneOutcome ==
    /\ Done <=> response.status # 0
    /\ Failed => FirstFailure
    /\ (Done /\ response.status = 200)
          => (Ran = <<TRUE, 1, 1, 1>> /\ prob_default # <<>>)

\* C26: the stages run in the order normalize, transform, select, infer,
\* score, assemble, each at most once; after a stage has failed no later
\* stage runs (no transform after a rejected input, no model call after a
\* failed load, transform or selection); a request ends with one outcome, the
\* result or the failure of the first stage that failed, and nothing runs
\* after the outcome.
C26_StagesInOrderOneOutcome ==
    /\ [](InOrder /\ OneOutcome)
    /\ [][~Done]_vars

\* the transform raised: the request ended there
C26_Witness ==
    /\ Failed
    /\ path \in APIPaths
    /\ response.error = "feature store error"
    /\ response.message = "transform"
    /\ Ran = <<TRUE, 1, 0, 0>>

----------------------------------------------------------------------------
(* Claims about calls that run at once and about the two API paths *)

\* the ways a call ends when no other call runs: the handler's steps from
\* the call as it was received, one after the other
RECURSIVE run_alone(_, _, _)
run_alone(r, dir, reg) ==
    IF r.pc = "done" THEN {r}
    ELSE UNION {run_alone(n, dir, reg) : n \in handler_step(r, dir, reg)}

Received(r) == Call(r.path, r.record, r.threshold)

HoldsStore(r) == r.pc \in {"loaded", "transformed", "selected", "scoring"}

\* a step of one call leaves the other call and the artifact files as they
\* were
StepIsLocal ==
    /\ scalers' = scalers
    /\ mlruns' = mlruns
    /\ \A i, j \in Callers :
          (i # j /\ requests'[i] # requests[i]) => requests'[j] = requests[j]

\* C21: two calls running at once, their stages interleaved in any way, each
\* end as they end when run alone (the same selection, probabilities and
\* response); no step of a call changes what the other call holds or the
\* artifact files, and the canonical list a call's store holds stays the
\* list of feature_selection.pkl.
C21_ConcurrentCallsIndependent ==
    /\ [](\A i \in Callers :
            /\ requests[i].pc = "done"
                  => requests[i]
                        \in run_alone(Received(requests[i]), scalers, mlruns)
            /\ HoldsStore(requests[i])
                  => requests[i].feats = PipelineCanon)
    /\ [][StepIsLocal]_vars

\* one call has its response while the other, on the other path, is between
\* selection and inference
C21_Witness ==
    /\ requests[1].pc = "done"
    /\ requests[1].response.status = 200
    /\ requests[2].pc = "selected"
    /\ requests[2].path # requests[1].path
    /\ requests[2].record # requests[1].record

\* the same complete flat record and the same threshold in [0,1], sent to
\* /predict by caller 1 and alone in a batch to /predict_batch by caller 2
SameRecordBothPaths ==
    /\ requests[1].path = "predict"
    /\ requests[2].path = "predict_batch"
    /\ requests[1].record = requests[2].record
    /\ Len(requests[1].record.levels) = 1
    /\ expected_cols \subseteq requests[1].record.levels[1]
    /\ requests[1].threshold = requests[2].threshold
    /\ threshold_allowed(requests[1].threshold)

BothDone == \A i \in Callers : requests[i].pc = "done"

====
